---- MODULE Spec2Model ----
(***************************************************************************)
(* A model of the SlideDeck controller of js/slidedeck.js: the slide       *)
(* index, the overlay layer group, the moveend listeners of the map and    *)
(* the asynchronous syncMapToSlide calls in flight.                        *)
(*                                                                         *)
(* JavaScript runs every callback to completion, so each action below is   *)
(* one whole synchronous run: a method call up to its first await, or the  *)
(* continuation of syncMapToSlide after its awaits, or one dispatch of the *)
(* map's moveend event to every registered listener.                       *)
(***************************************************************************)
EXTENDS Integers, Sequences, FiniteSets, TLC

\* ------------------------------------------------------------------------
\* Bounds of the model
\* ------------------------------------------------------------------------
MaxSlides == 3        \* decks of 1..MaxSlides slides
MaxSyncs == 2         \* calls that rebuild the overlay (syncMapToSlide, updateDataLayer on its own) made in one behaviour
MaxScrollSteps == 1   \* scroll positions 0, ScrollStep, ..., MaxScrollSteps * ScrollStep
MaxPreloads == 2      \* fetches of preloadFeatureCollections in flight at one time

\* Geometry of the page the deck is shown on (inputs of calcCurrentSlideIndex).
ScrollStep == 63
SlideHeight == 49
WindowHeights == {20, 90}

ScrollPositions == {k * ScrollStep : k \in 0..MaxScrollSteps}

\* ------------------------------------------------------------------------
\* GeoJSON data a fetch can return
\* ------------------------------------------------------------------------
\* props: what feature.properties is.  "null": properties is null;
\* "empty": an object with neither name nor label; "name", "label", "both".
Feature(props, lat, lng) == [props |-> props, lat |-> lat, lng |-> lng]

\* bbox is <<west, south, east, north>>, or <<>> when the member is absent.
Collections ==
  << [features |-> <<>>, bbox |-> <<>>],
     [features |-> <<Feature("both", 25, 15), Feature("label", 26, 12)>>,
      bbox |-> <<10, 20, 30, 40>>],
     [features |-> <<Feature("name", 1, 2), Feature("null", 3, 1)>>, bbox |-> <<>>] >>

CollIds == DOMAIN Collections

VARIABLES
  slides,             \* this.slides: sequence of slide elements (1-based here, 0-based in the code)
  currentSlideIndex,  \* this.currentSlideIndex
  scrollY,            \* window.scrollY
  innerHeight,        \* window.innerHeight
  syncs,              \* the syncMapToSlide calls made so far, in call order
  direct,             \* the collections updateDataLayer was called with on its own, in call order
  dataLayer,          \* this.dataLayer: the layers in the layer group, by the call that built them:
                      \* s for sync s, -k for the k-th updateDataLayer call made on its own
  listeners,          \* the map's moveend listeners in registration order, by the sync that registered them
  flying,             \* the sync whose flyToBounds animation is in progress, 0 if none
  viewport,           \* the bounds of the last flyToBounds animation started, <<>> if none
  permTips,           \* permanent tooltips bound: <<sync, feature number>>
  lastFetched,        \* the call that ran updateDataLayer last (s for sync s whose fetch succeeded,
                      \* -k for the k-th call made on its own), 0 if none did yet
  preloads,           \* the fetches started outside a sync (by preloadFeatureCollections or a direct
                      \* getSlideFeatureCollection call) that are still in flight
  op,                 \* the operation the last step performed
  calcRuns            \* calls of calcCurrentSlideIndex (counted up to 2) since the index, scrollY or
                      \* innerHeight was last changed by anything else

vars == <<slides, currentSlideIndex, scrollY, innerHeight, syncs, direct, dataLayer,
          listeners, flying, viewport, permTips, lastFetched, preloads, op, calcRuns>>

mapVars == <<dataLayer, listeners, flying, viewport, permTips, lastFetched>>
winVars == <<scrollY, innerHeight>>

\* ------------------------------------------------------------------------
\* Helpers
\* ------------------------------------------------------------------------
Min(a, b) == IF a <= b THEN a ELSE b
Max(a, b) == IF a >= b THEN a ELSE b
SetMin(S) == CHOOSE x \in S : \A y \in S : x <= y
SetMax(S) == CHOOSE x \in S : \A y \in S : x >= y

\* this.slides.length
NumSlides == Len(slides)

\* whether this.slides[i] is an element (it is undefined outside 0..length-1)
IsSlide(i) == i \in 0..(NumSlides - 1)

\* this.slides[i], for an index that has an element
SlideAt(i) == slides[i + 1]

\* slide.offsetTop of the slide at index i
OffsetTop(i) == i * SlideHeight

\* L.latLngBounds(corner1, corner2); a corner is <<lat, lng>>
LatLngBounds(c1, c2) ==
  [south |-> Min(c1[1], c2[1]), west |-> Min(c1[2], c2[2]),
   north |-> Max(c1[1], c2[1]), east |-> Max(c1[2], c2[2])]

\* boundsFromBbox reading the bbox as [south, west, north, east]
boundsFromBbox_LatLngSwapped(bbox) ==
  LatLngBounds(<<bbox[1], bbox[2]>>, <<bbox[3], bbox[4]>>)

\* boundsFromBbox
boundsFromBbox(bbox) ==
  LET west == bbox[1]
      south == bbox[2]
      east == bbox[3]
      north == bbox[4]
  IN LatLngBounds(<<south, west>>, <<north, east>>)

\* getBounds looking at the first feature only
LayerBounds_FirstFeature(coll) ==
  LET fs == coll.features
  IN IF Len(fs) = 0 THEN <<>>
     ELSE [south |-> fs[1].lat, west |-> fs[1].lng,
           north |-> fs[1].lat, east |-> fs[1].lng]

\* layer.getBounds() of the GeoJSON layer built from a collection; <<>> is
\* Leaflet's invalid (empty) bounds
LayerBounds(coll) ==
  LET fs == coll.features
      lats == {fs[k].lat : k \in DOMAIN fs}
      lngs == {fs[k].lng : k \in DOMAIN fs}
  IN IF Len(fs) = 0 THEN <<>>
     ELSE [south |-> SetMin(lats), west |-> SetMin(lngs),
           north |-> SetMax(lats), east |-> SetMax(lngs)]

\* the argument syncMapToSlide passes to flyToBounds
FlyTarget(coll) ==
  IF coll.bbox # <<>> THEN boundsFromBbox(coll.bbox) ELSE LayerBounds(coll)

\* onEachFeature: the features that get a hover tooltip
HoverTips(coll) ==
  {k \in DOMAIN coll.features : coll.features[k].props \in {"name", "both"}}

\* pointToLayer: the icon of the marker made for a point feature
pointToLayer(feature) ==
  [iconUrl |-> "./pic/pointicon.svg", iconSize |-> <<20, 20>>, iconAnchor |-> <<10, 10>>]

\* updateDataLayer without its clearLayers call
updateDataLayer_NoClear(layers, s) == layers \cup {s}

\* updateDataLayer: clearLayers, then the new GeoJSON layer is added
updateDataLayer(layers, s) == {s}

\* ------------------------------------------------------------------------
\* The moveend handlers (handleFlyEnd closures)
\* ------------------------------------------------------------------------
\* The number of the first feature of sync s's layer on which handleFlyEnd
\* throws (l.feature.properties is null), 0 if it runs to its end.
ThrowAt(s) ==
  LET fs == Collections[syncs[s].coll].features
      bad == {k \in DOMAIN fs : fs[k].props = "null"}
  IN IF SlideAt(syncs[s].slide).showpopups /\ bad # {} THEN SetMin(bad) ELSE 0

\* The permanent tooltips one run of sync s's handleFlyEnd binds and opens.
handleFlyEndTips(s) ==
  LET fs == Collections[syncs[s].coll].features
      last == IF ThrowAt(s) = 0 THEN Len(fs) ELSE ThrowAt(s) - 1
  IN IF SlideAt(syncs[s].slide).showpopups
     THEN {<<s, k>> : k \in 1..last}
     ELSE {}

\* map.fire('moveend') calls the listeners in registration order; the
\* position of the first one that throws (the dispatch stops there), 0 if none
FirstThrower(ls) ==
  LET bad == {j \in DOMAIN ls : ThrowAt(ls[j]) # 0}
  IN IF bad = {} THEN 0 ELSE SetMin(bad)

\* the positions of the listeners one dispatch calls
Called(ls) ==
  IF FirstThrower(ls) = 0 THEN DOMAIN ls ELSE 1..FirstThrower(ls)

\* handleFlyEnd without its removeEventListener call
Remaining_KeepAll(ls, j) ==
  IF j > Len(ls) THEN <<>> ELSE SubSeq(ls, j, Len(ls))

\* the listeners left registered after one dispatch: a handler that ran to
\* its end removed itself, one that threw or was not called is still there
RECURSIVE Remaining(_, _)
Remaining(ls, j) ==
  IF j > Len(ls) THEN <<>>
  ELSE IF j \in Called(ls) /\ j # FirstThrower(ls)
       THEN Remaining(ls, j + 1)
       ELSE <<ls[j]>> \o Remaining(ls, j + 1)

\* One dispatch of moveend; ended is the sync whose animation just
\* completed (0 if the event has another cause), fly the animation left
\* in progress.
FireMoveEnd(ended, fly, name) ==
  LET calledSyncs == {listeners[j] : j \in Called(listeners)}
  IN /\ permTips' = permTips \cup UNION {handleFlyEndTips(s) : s \in calledSyncs}
     /\ listeners' = Remaining(listeners, 1)
     /\ syncs' = [s \in DOMAIN syncs |->
                    [syncs[s] EXCEPT
                       !.runs = IF s \in calledSyncs THEN Min(@ + 1, 2) ELSE @,
                       !.animEnded = @ \/ (s = ended)]]
     /\ flying' = fly
     /\ op' = name
     /\ UNCHANGED <<slides, direct, preloads, currentSlideIndex, winVars, dataLayer, viewport, lastFetched, calcRuns>>

\* the flyToBounds animation in progress reaches its target: moveend
AnimEnd ==
  /\ flying # 0
  /\ FireMoveEnd(flying, 0, "animEnd")

\* a moveend with another cause (the reader drags or zooms the map, the
\* map is resized); it may or may not stop the animation in progress
OtherMoveEnd ==
  \E stop \in BOOLEAN :
    FireMoveEnd(0, IF stop THEN 0 ELSE flying, "otherMoveEnd")

\* ------------------------------------------------------------------------
\* syncMapToSlide
\* ------------------------------------------------------------------------
\* the sync started for the slide at the index before it was updated
NewSync_Stale(i) ==
  [slide |-> currentSlideIndex,
   st |-> IF IsSlide(currentSlideIndex) THEN "fetching" ELSE "rejected",
   coll |-> 0, animEnded |-> FALSE, runs |-> 0]

\* syncMapToSlide(this.slides[i]) at its first await
NewSync(i) ==
  [slide |-> i,
   st |-> IF IsSlide(i) THEN "fetching" ELSE "rejected",
   coll |-> 0, animEnded |-> FALSE, runs |-> 0]

\* a new sync cancelling the syncs still fetching
syncMapToCurrentSlide_Cancelling(i) ==
  Append([s \in DOMAIN syncs |->
            IF syncs[s].st = "fetching"
            THEN [syncs[s] EXCEPT !.st = "rejected"]
            ELSE syncs[s]],
         NewSync(i))

\* syncMapToCurrentSlide -> syncMapToSlide(this.slides[i]) up to its first
\* await: the fetch is started; slide.id of an undefined slide throws and
\* the call's promise is rejected at once
syncMapToCurrentSlide(i) == Append(syncs, NewSync(i))

\* syncMapToCurrentSlide() called on its own: the index stays, a sync is
\* started for the slide at it
SyncMapToCurrentSlideCall ==
  /\ Len(syncs) + Len(direct) < MaxSyncs
  /\ syncs' = syncMapToCurrentSlide(currentSlideIndex)
  /\ op' = "syncMapToCurrentSlide"
  /\ UNCHANGED <<slides, direct, preloads, currentSlideIndex, winVars, mapVars, calcRuns>>

\* syncMapToSlide(this.slides[i]) called on its own, for any slide of the deck
SyncMapToSlideCall(i) ==
  /\ Len(syncs) + Len(direct) < MaxSyncs
  /\ IsSlide(i)
  /\ syncs' = Append(syncs, NewSync(i))
  /\ op' = "syncMapToSlide"
  /\ UNCHANGED <<slides, direct, preloads, currentSlideIndex, winVars, mapVars, calcRuns>>

\* updateDataLayer(data) called on its own with collection c: the overlay is
\* replaced; no fetch, no handler, no animation
UpdateDataLayerCall(c) ==
  /\ Len(syncs) + Len(direct) < MaxSyncs
  /\ direct' = Append(direct, c)
  /\ dataLayer' = updateDataLayer(dataLayer, -Len(direct'))
  /\ lastFetched' = -Len(direct')
  /\ op' = "updateDataLayer"
  /\ UNCHANGED <<slides, preloads, currentSlideIndex, winVars, syncs, listeners, flying,
                 viewport, permTips, calcRuns>>

\* getSlideFeatureCollection(this.slides[i]) called on its own: one more
\* fetch in flight, its result goes to the caller
GetSlideFeatureCollectionCall(i) ==
  /\ preloads + 1 <= MaxPreloads
  /\ IsSlide(i)
  /\ preloads' = preloads + 1
  /\ op' = "getSlideFeatureCollection"
  /\ UNCHANGED <<slides, direct, currentSlideIndex, winVars, syncs, mapVars, calcRuns>>

\* the fetch and the JSON parse of sync s succeed with collection c; the
\* rest of syncMapToSlide runs: updateDataLayer, addEventListener, flyToBounds
FetchOk(s, c) ==
  LET target == FlyTarget(Collections[c])
  IN /\ syncs[s].st = "fetching"
     /\ dataLayer' = updateDataLayer(dataLayer, s)
     /\ listeners' = Append(listeners, s)
     /\ IF target = <<>>
        THEN \* flyToBounds throws on invalid bounds: no animation starts
             /\ syncs' = [syncs EXCEPT ![s].st = "threw", ![s].coll = c]
             /\ UNCHANGED <<flying, viewport>>
        ELSE /\ syncs' = [syncs EXCEPT ![s].st = "done", ![s].coll = c]
             /\ flying' = s
             /\ viewport' = target
     /\ lastFetched' = s
     /\ op' = "fetchOk"
     /\ UNCHANGED <<slides, direct, preloads, currentSlideIndex, winVars, permTips, calcRuns>>

\* a failed fetch clearing the overlay
FetchFail_ClearsOverlay(s) ==
  /\ syncs[s].st = "fetching"
  /\ syncs' = [syncs EXCEPT ![s].st = "rejected"]
  /\ dataLayer' = {}
  /\ op' = "fetchFail"
  /\ UNCHANGED <<slides, direct, preloads, currentSlideIndex, winVars, listeners, flying,
                 viewport, permTips, lastFetched, calcRuns>>

\* the fetch or the JSON parse of sync s fails: the rejection propagates out
\* of getSlideFeatureCollection and syncMapToSlide
FetchFail(s) ==
  /\ syncs[s].st = "fetching"
  /\ syncs' = [syncs EXCEPT ![s].st = "rejected"]
  /\ op' = "fetchFail"
  /\ UNCHANGED <<slides, direct, preloads, currentSlideIndex, winVars, mapVars, calcRuns>>

\* ------------------------------------------------------------------------
\* Navigation
\* ------------------------------------------------------------------------
\* goNextSlide wrapping one slide too late
goNextIndex_OffByOne(i) == IF i + 1 > NumSlides THEN 0 ELSE i + 1

\* this.currentSlideIndex++ and the wrap to 0 at slides.length
goNextIndex(i) == IF i + 1 = NumSlides THEN 0 ELSE i + 1

goNextSlide ==
  /\ Len(syncs) + Len(direct) < MaxSyncs
  /\ currentSlideIndex' = goNextIndex(currentSlideIndex)
  /\ syncs' = syncMapToCurrentSlide(currentSlideIndex')
  /\ op' = "goNextSlide"
  /\ calcRuns' = 0
  /\ UNCHANGED <<slides, direct, preloads, winVars, mapVars>>

\* goPrevSlide wrapping to slides.length
goPrevIndex_OffByOne(i) == IF i - 1 < 0 THEN NumSlides ELSE i - 1

\* this.currentSlideIndex-- and the wrap to slides.length - 1 below 0
goPrevIndex(i) == IF i - 1 < 0 THEN NumSlides - 1 ELSE i - 1

goPrevSlide ==
  /\ Len(syncs) + Len(direct) < MaxSyncs
  /\ currentSlideIndex' = goPrevIndex(currentSlideIndex)
  /\ syncs' = syncMapToCurrentSlide(currentSlideIndex')
  /\ op' = "goPrevSlide"
  /\ calcRuns' = 0
  /\ UNCHANGED <<slides, direct, preloads, winVars, mapVars>>

\* the largest power of two that is at most m (m >= 1)
RECURSIVE Pow2Below(_)
Pow2Below(m) == IF m < 2 THEN 1 ELSE 2 * Pow2Below(m \div 2)

\* windowHeight * 0.7 is a multiplication of doubles, and the double 0.7 is
\* 0.7 - 0.2 * 2^-52.  When 7 * windowHeight / 10 is an integer m, the exact
\* product m - (2 * m / 7) * 2^-52 lies below m; it is rounded to the double
\* just below m when it is nearer to that one than to m, which is when
\* m > 1.75 * Pow2Below(m) (90 * 0.7 is 62.99999999999999), and to m
\* otherwise (10 * 0.7 is 7; the tie at m = 1.75 * Pow2Below(m) goes to m,
\* whose mantissa is even).
RoundsBelow(windowHeight) ==
  /\ windowHeight > 0
  /\ (7 * windowHeight) % 10 = 0
  /\ LET m == (7 * windowHeight) \div 10 IN 4 * m > 7 * Pow2Below(m)

\* ten times windowHeight * 0.7, as far as a comparison with an integer can
\* tell: a product rounded to just below the integer m stands as 10 * m - 1
TimesPoint7x10(windowHeight) ==
  IF RoundsBelow(windowHeight) THEN 7 * windowHeight - 1 ELSE 7 * windowHeight

\* slidePos = offsetTop - scrollPos + windowHeight * 0.7 in tenths, for
\* integer offsetTop and scrollPos: it has the sign of slidePos and is 0
\* exactly when slidePos is 0
SlidePos10(i, scrollPos, windowHeight) ==
  10 * (OffsetTop(i) - scrollPos) + TimesPoint7x10(windowHeight)

\* the for loop of calcCurrentSlideIndex, entered at i
RECURSIVE CalcLoop(_, _, _)
CalcLoop(i, scrollPos, windowHeight) ==
  IF i < NumSlides /\ ~(SlidePos10(i, scrollPos, windowHeight) >= 0)
  THEN CalcLoop(i + 1, scrollPos, windowHeight)
  ELSE i

\* calcCurrentSlideIndex resyncing on every call
IndexChanged_Always(i, current) == TRUE

\* the test i !== this.currentSlideIndex
IndexChanged(i, current) == i # current

calcCurrentSlideIndex ==
  LET i == CalcLoop(0, scrollY, innerHeight)
  IN /\ IF IndexChanged(i, currentSlideIndex)
        THEN /\ Len(syncs) + Len(direct) < MaxSyncs
             /\ currentSlideIndex' = i
             /\ syncs' = syncMapToCurrentSlide(i)
        ELSE UNCHANGED <<currentSlideIndex, syncs>>
     /\ op' = "calcCurrentSlideIndex"
     /\ calcRuns' = Min(calcRuns + 1, 2)
     /\ UNCHANGED <<slides, direct, preloads, winVars, mapVars>>

\* ------------------------------------------------------------------------
\* preloadFeatureCollections
\* ------------------------------------------------------------------------
\* the preload loop fetching the first slide only
preloadFetches_FirstOnly(n) == n + 1

\* one getSlideFeatureCollection call per slide, none of them awaited
preloadFetches(n) == n + NumSlides

preloadFeatureCollections ==
  /\ preloads + NumSlides <= MaxPreloads
  /\ preloads' = preloadFetches(preloads)
  /\ op' = "preloadFeatureCollections"
  /\ calcRuns' = calcRuns
  /\ UNCHANGED <<slides, direct, currentSlideIndex, winVars, syncs, mapVars>>

\* a fetch started outside a sync settles: it resolves with the collection
\* (ok) or is rejected; the deck does nothing with either
PreloadSettled(ok) ==
  /\ preloads > 0
  /\ preloads' = preloads - 1
  /\ op' = IF ok THEN "preloadOk" ELSE "preloadFail"
  /\ calcRuns' = calcRuns
  /\ UNCHANGED <<slides, direct, currentSlideIndex, winVars, syncs, mapVars>>

\* ------------------------------------------------------------------------
\* The window
\* ------------------------------------------------------------------------
Scroll(y) ==
  /\ y # scrollY
  /\ scrollY' = y
  /\ op' = "scroll"
  /\ calcRuns' = 0
  /\ UNCHANGED <<slides, direct, preloads, currentSlideIndex, innerHeight, syncs, mapVars>>

Resize(h) ==
  /\ h # innerHeight
  /\ innerHeight' = h
  /\ op' = "resize"
  /\ calcRuns' = 0
  /\ UNCHANGED <<slides, direct, preloads, currentSlideIndex, scrollY, syncs, mapVars>>

\* ------------------------------------------------------------------------
\* Specification
\* ------------------------------------------------------------------------
\* the deck of n slide elements: every other slide, from the first on, asks
\* for persistent popups
Deck(n) == [i \in 1..n |-> [showpopups |-> (i % 2 = 1)]]

\* the state after new SlideDeck(slides, map)
Init ==
  /\ slides \in {Deck(n) : n \in 1..MaxSlides}
  /\ currentSlideIndex = 0
  /\ scrollY = 0
  /\ innerHeight \in WindowHeights
  /\ syncs = <<>>
  /\ direct = <<>>
  /\ dataLayer = {}
  /\ listeners = <<>>
  /\ flying = 0
  /\ viewport = <<>>
  /\ permTips = {}
  /\ lastFetched = 0
  /\ preloads = 0
  /\ op = "constructor"
  /\ calcRuns = 0

Next ==
  \/ goNextSlide
  \/ goPrevSlide
  \/ calcCurrentSlideIndex
  \/ \E y \in ScrollPositions : Scroll(y)
  \/ \E h \in WindowHeights : Resize(h)
  \/ \E s \in DOMAIN syncs : \E c \in CollIds : FetchOk(s, c)
  \/ \E s \in DOMAIN syncs : FetchFail(s)
  \/ AnimEnd
  \/ OtherMoveEnd
  \/ preloadFeatureCollections
  \/ \E ok \in BOOLEAN : PreloadSettled(ok)
  \/ SyncMapToCurrentSlideCall
  \/ \E i \in 0..(MaxSlides - 1) : SyncMapToSlideCall(i)
  \/ \E c \in CollIds : UpdateDataLayerCall(c)
  \/ \E i \in 0..(MaxSlides - 1) : GetSlideFeatureCollectionCall(i)

Spec == Init /\ [][Next]_vars

\* no sync is in progress: no fetch pending, no animation in flight, no
\* completion handler waiting for a moveend
Settled ==
  /\ \A s \in DOMAIN syncs : syncs[s].st # "fetching"
  /\ flying = 0
  /\ listeners = <<>>

\* the deck used without overlap: a navigation operation starts only when
\* the syncs before it have finished
NextSerial ==
  \/ Settled /\ goNextSlide
  \/ Settled /\ goPrevSlide
  \/ Settled /\ calcCurrentSlideIndex
  \/ \E y \in ScrollPositions : Scroll(y)
  \/ \E h \in WindowHeights : Resize(h)
  \/ \E s \in DOMAIN syncs : \E c \in CollIds : FetchOk(s, c)
  \/ \E s \in DOMAIN syncs : FetchFail(s)
  \/ AnimEnd
  \/ OtherMoveEnd
  \/ preloadFeatureCollections
  \/ \E ok \in BOOLEAN : PreloadSettled(ok)
  \/ Settled /\ SyncMapToCurrentSlideCall
  \/ \E i \in 0..(MaxSlides - 1) : Settled /\ SyncMapToSlideCall(i)
  \/ \E c \in CollIds : UpdateDataLayerCall(c)
  \/ \E i \in 0..(MaxSlides - 1) : GetSlideFeatureCollectionCall(i)

SpecSerial == Init /\ [][NextSerial]_vars

\* the layers built so far
LayerIds == DOMAIN syncs \cup {-k : k \in DOMAIN direct}

\* the collection layer l was built from
LayerColl(l) == IF l > 0 THEN syncs[l].coll ELSE direct[-l]

TypeOK ==
  /\ currentSlideIndex \in 0..(MaxSlides + MaxSyncs)
  /\ scrollY \in ScrollPositions
  /\ innerHeight \in WindowHeights
  /\ Len(syncs) + Len(direct) <= MaxSyncs
  /\ calcRuns \in 0..2
  /\ preloads \in 0..MaxPreloads
  /\ \A k \in DOMAIN direct : direct[k] \in CollIds
  /\ lastFetched \in {0} \cup LayerIds
  /\ dataLayer \subseteq LayerIds
  /\ flying \in {0} \cup DOMAIN syncs
  /\ \A j \in DOMAIN listeners : listeners[j] \in DOMAIN syncs

\* ------------------------------------------------------------------------
\* Properties
\* ------------------------------------------------------------------------
\* the features of a collection, as features of the layer sync s built
LayerFeatures(s, coll) == {<<s, k>> : k \in DOMAIN coll.features}

\* the features shown in the overlay
OverlayFeatures ==
  UNION {LayerFeatures(l, Collections[LayerColl(l)]) : l \in dataLayer}

\* C1 (as stated): at all times exactly one overlay layer is shown, and it
\* is the layer built for the slide at currentSlideIndex.
C1_ExactlyOneLayerOfCurrentSlide ==
  /\ Cardinality(dataLayer) = 1
  /\ \A l \in dataLayer : l > 0 /\ syncs[l].slide = currentSlideIndex

\* C1 (amended): at all times at most one overlay layer is shown: none
\* until updateDataLayer runs for the first time (when the first fetch of a
\* sync succeeds, or on a direct call), and from then on exactly the layer
\* built by its latest run, whatever slide that was for.
C1_AtMostOneLayerOfLastFetch ==
  /\ Cardinality(dataLayer) <= 1
  /\ dataLayer = IF lastFetched = 0 THEN {} ELSE {lastFetched}
  /\ \A l \in dataLayer : /\ LayerColl(l) \in CollIds
                          /\ l > 0 => syncs[l].st \in {"done", "threw"}

\* two syncs overlapped and their fetches completed out of order: the overlay
\* shows the layer of the first sync, which is not for the current slide
C1_Witness ==
  /\ Len(syncs) = 2
  /\ syncs[1].coll # 0 /\ syncs[2].coll # 0
  /\ lastFetched = 1
  /\ dataLayer = {1}
  /\ syncs[1].slide # currentSlideIndex

\* C2: goNextSlide from a valid index i leaves currentSlideIndex at
\* (i + 1) mod N; from N - 1 it lands on 0.
C2_GoNextSlideWraps ==
  [][(op' = "goNextSlide" /\ Len(syncs') = Len(syncs) + 1
        /\ currentSlideIndex \in 0..(NumSlides - 1))
     => currentSlideIndex' = (currentSlideIndex + 1) % NumSlides]_vars

\* goNextSlide has just wrapped from the last slide of a deck of several slides
C2_Witness ==
  /\ op = "goNextSlide"
  /\ NumSlides > 1
  /\ currentSlideIndex = 0

\* C3: goPrevSlide from a valid index i leaves currentSlideIndex at
\* (i - 1) mod N; from 0 it lands on N - 1.
C3_GoPrevSlideWraps ==
  [][(op' = "goPrevSlide" /\ Len(syncs') = Len(syncs) + 1
        /\ currentSlideIndex \in 0..(NumSlides - 1))
     => currentSlideIndex' = (currentSlideIndex - 1 + NumSlides) % NumSlides]_vars

\* goPrevSlide has just wrapped from the first slide of a deck of several slides
C3_Witness ==
  /\ op = "goPrevSlide"
  /\ NumSlides > 1
  /\ Len(syncs) = 1
  /\ currentSlideIndex = NumSlides - 1

\* the slides whose adjusted offset offsetTop - scrollY + 0.7 * innerHeight
\* is non-negative (the inequality is stated in tenths)
NonNegativeSlides ==
  {i \in 0..(NumSlides - 1) :
     10 * (i * SlideHeight) + 7 * innerHeight >= 10 * scrollY}

\* C4: calcCurrentSlideIndex selects the first slide whose adjusted offset
\* offsetTop - scrollY + 0.7 * innerHeight is non-negative; if its index differs from the stored one it is stored and
\* exactly one sync is started, for the slide at the new index; otherwise
\* the index stays and no sync is started.
C4_CalcSelectsFirstNonNegative ==
  [][(op' = "calcCurrentSlideIndex" /\ NonNegativeSlides # {})
     => LET first == SetMin(NonNegativeSlides)
        IN /\ currentSlideIndex' = first
           /\ IF first # currentSlideIndex
              THEN /\ Len(syncs') = Len(syncs) + 1
                   /\ SubSeq(syncs', 1, Len(syncs)) = syncs
                   /\ syncs'[Len(syncs')].slide = first
                   /\ syncs'[Len(syncs')].st = "fetching"
              ELSE syncs' = syncs]_vars

\* C5: a call of calcCurrentSlideIndex that follows another one, with
\* scrollY, innerHeight and the index untouched in between, leaves
\* currentSlideIndex unchanged and starts no sync: no fetch, no overlay
\* rebuild, no animation.
C5_CalcIdempotent ==
  [][(calcRuns >= 1 /\ op' = "calcCurrentSlideIndex")
     => UNCHANGED <<currentSlideIndex, syncs, mapVars>>]_vars

\* calcCurrentSlideIndex moved the deck and was then called a second time
C5_Witness ==
  /\ op = "calcCurrentSlideIndex"
  /\ calcRuns = 2
  /\ currentSlideIndex # 0
  /\ Len(syncs) = 1

\* C6: updateDataLayer fully replaces the overlay: after the call for
\* collection B the overlay holds exactly the features of B and none of the
\* features it held before, empty collections included.
C6_UpdateDataLayerReplaces ==
  [][op' \in {"fetchOk", "updateDataLayer"} /\ lastFetched' # 0
     => /\ OverlayFeatures' =
             LayerFeatures(lastFetched', Collections[IF lastFetched' > 0 THEN syncs'[lastFetched'].coll
                                       ELSE direct'[-lastFetched']])
        /\ (lastFetched' # lastFetched => OverlayFeatures' \cap OverlayFeatures = {})]_vars

\* updateDataLayer(A) with two features was followed by updateDataLayer(B)
\* with the empty collection: the overlay is empty
C6_Witness ==
  /\ op = "fetchOk"
  /\ Len(syncs) = 2
  /\ lastFetched = 2
  /\ syncs[1].coll # 0
  /\ Len(Collections[syncs[1].coll].features) = 2
  /\ Collections[syncs[2].coll].features = <<>>
  /\ OverlayFeatures = {}

\* C7: with an explicit bbox [west, south, east, north] the animation
\* syncMapToSlide starts targets the bounds with corners (south, west) and
\* (north, east): [10, 20, 30, 40] gives (20, 10)-(40, 30).
C7_BboxIsTheTarget ==
  (op = "fetchOk" /\ Collections[syncs[lastFetched].coll].bbox # <<>>)
  => LET bbox == Collections[syncs[lastFetched].coll].bbox
     IN /\ flying = lastFetched
        /\ viewport = [south |-> bbox[2], west |-> bbox[1],
                       north |-> bbox[4], east |-> bbox[3]]
        /\ (bbox = <<10, 20, 30, 40>>
              => viewport = [south |-> 20, west |-> 10, north |-> 40, east |-> 30])

\* a sync has just flown to the bbox [10, 20, 30, 40] of its collection,
\* which is not the bounds of the overlay it rendered
C7_Witness ==
  /\ op = "fetchOk"
  /\ Collections[syncs[lastFetched].coll].bbox = <<10, 20, 30, 40>>
  /\ flying = lastFetched
  /\ viewport # LayerBounds(Collections[syncs[lastFetched].coll])

\* C8: without a bbox the animation syncMapToSlide starts targets the
\* bounding box of the overlay layer the call just rendered: every feature
\* of the layer lies inside the target and every edge of the target goes
\* through a feature.
C8_OverlayBoundsAreTheTarget ==
  (op = "fetchOk" /\ Collections[syncs[lastFetched].coll].bbox = <<>>
     /\ syncs[lastFetched].st = "done")
  => LET fs == Collections[syncs[lastFetched].coll].features
     IN /\ dataLayer = {lastFetched}
        /\ flying = lastFetched
        /\ fs # <<>>
        /\ \A k \in DOMAIN fs :
             /\ viewport.south <= fs[k].lat /\ fs[k].lat <= viewport.north
             /\ viewport.west <= fs[k].lng /\ fs[k].lng <= viewport.east
        /\ \E k \in DOMAIN fs : fs[k].lat = viewport.south
        /\ \E k \in DOMAIN fs : fs[k].lat = viewport.north
        /\ \E k \in DOMAIN fs : fs[k].lng = viewport.west
        /\ \E k \in DOMAIN fs : fs[k].lng = viewport.east

\* a sync has just flown to the bounds of the two features it rendered
C8_Witness ==
  /\ op = "fetchOk"
  /\ Collections[syncs[lastFetched].coll].bbox = <<>>
  /\ Len(Collections[syncs[lastFetched].coll].features) = 2
  /\ flying = lastFetched
  /\ viewport = [south |-> 1, west |-> 1, north |-> 3, east |-> 2]

\* C9: the permanent tooltips of a slide flagged for persistent popups are
\* bound only after the animation started by that slide's sync has
\* completed, and none is ever bound for a slide without the flag.
C9_TooltipsOnlyAfterOwnAnimation ==
  \A t \in permTips :
    /\ syncs[t[1]].animEnded
    /\ SlideAt(syncs[t[1]].slide).showpopups

\* C10: within one syncMapToSlide call the fetch completes before the
\* overlay is rebuilt, the rebuild completes and the handler is registered
\* before the animation starts, and the handler fires only after that
\* animation has ended.
C10_SyncStepsOrdered ==
  \A s \in DOMAIN syncs :
    /\ s \in dataLayer => syncs[s].coll # 0
    /\ flying = s => syncs[s].st = "done" /\ syncs[s].coll # 0
    /\ (\E j \in DOMAIN listeners : listeners[j] = s) => syncs[s].st \in {"done", "threw"}
    /\ syncs[s].animEnded => syncs[s].st = "done"
    /\ syncs[s].runs > 0 => syncs[s].animEnded

\* the steps that dispatch moveend, and the navigation operations
MoveEndOps == {"animEnd", "otherMoveEnd"}
NavigationOps == {"goNextSlide", "goPrevSlide", "calcCurrentSlideIndex"}
SyncStartOps == NavigationOps \cup {"syncMapToCurrentSlide", "syncMapToSlide"}

\* whether sync s's completion handler is registered
Registered(s) == \E j \in DOMAIN listeners : listeners[j] = s

\* the permanent tooltips bound on the layer sync s built
TipsOf(s) == {t \in permTips : t[1] = s}

\* C11: the completion handler is one-shot: each handler runs at most once
\* and is unregistered when it fires, so after a movement-end event no
\* completion handler remains registered.
C11_HandlersOneShot ==
  /\ \A s \in DOMAIN syncs : syncs[s].runs <= 1
  /\ op \in MoveEndOps => listeners = <<>>

\* C12: an operation that starts a sync cancels nothing: the syncs started before it,
\* their pending fetches, the animation in flight, the overlay and the
\* registered handlers are left as they were, so every sync runs on
\* independently of the later ones.
C12_NothingCancelled ==
  [][op' \in SyncStartOps
     => /\ \A s \in DOMAIN syncs : s \in DOMAIN syncs' /\ syncs'[s] = syncs[s]
        /\ UNCHANGED mapVars]_vars

\* two overlapping syncs both ran to completion, the first one last: the deck
\* is quiescent and the overlay and the viewport are those of the first
\* sync's slide, not of the slide at currentSlideIndex
C12_Witness ==
  /\ Len(syncs) = 2
  /\ syncs[1].st = "done" /\ syncs[2].st = "done"
  /\ flying = 0
  /\ lastFetched = 1
  /\ dataLayer = {1}
  /\ syncs[1].slide # currentSlideIndex
  /\ syncs[2].slide = currentSlideIndex
  /\ viewport = FlyTarget(Collections[syncs[1].coll])
  /\ viewport # FlyTarget(Collections[syncs[2].coll])

\* C13: every change of currentSlideIndex, and every goNextSlide and
\* goPrevSlide call, starts in the same step exactly one sync, for the slide
\* at the new index.
C13_TransitionResyncs ==
  [][(currentSlideIndex' # currentSlideIndex \/ op' \in {"goNextSlide", "goPrevSlide"})
     => /\ Len(syncs') = Len(syncs) + 1
        /\ SubSeq(syncs', 1, Len(syncs)) = syncs
        /\ syncs'[Len(syncs')].slide = currentSlideIndex'
        /\ syncs'[Len(syncs')].coll = 0
        /\ syncs'[Len(syncs')].st = IF IsSlide(currentSlideIndex') THEN "fetching" ELSE "rejected"]_vars

\* goPrevSlide has just moved a deck of several slides, after an earlier
\* navigation, and the fetch for the slide at the new index is pending
C13_Witness ==
  /\ op = "goPrevSlide"
  /\ NumSlides > 1
  /\ Len(syncs) = 2
  /\ syncs[1].slide # currentSlideIndex
  /\ syncs[2].slide = currentSlideIndex
  /\ syncs[2].st = "fetching"

\* C14: a failed fetch or parse only rejects its sync: the overlay, the
\* registered handlers, the animation and the viewport are left as they
\* were, no sync is started in its place, and a rejected sync never acts
\* again.
C14_FailureLeavesMapAlone ==
  [][/\ op' = "fetchFail"
        => /\ UNCHANGED <<mapVars, currentSlideIndex>>
           /\ Len(syncs') = Len(syncs)
           /\ \E s \in DOMAIN syncs :
                /\ syncs[s].st = "fetching"
                /\ syncs' = [syncs EXCEPT ![s].st = "rejected"]
     /\ \A s \in DOMAIN syncs :
          syncs[s].st = "rejected" => syncs'[s] = syncs[s]]_vars

\* the fetch of a second sync has just failed while the overlay, and the
\* animation, of the first sync are on the map
C14_Witness ==
  /\ op = "fetchFail"
  /\ Len(syncs) = 2
  /\ syncs[2].st = "rejected" /\ IsSlide(syncs[2].slide)
  /\ dataLayer = {1}
  /\ flying = 1
  /\ listeners = <<1>>

\* C15: preloadFeatureCollections starts one fetch per slide and returns
\* with all of them in flight; neither the call nor the later success or
\* failure of those fetches changes currentSlideIndex, the syncs, the
\* overlay, the registered handlers or the viewport.
C15_PreloadChangesNothing ==
  [][/\ op' = "preloadFeatureCollections"
        => /\ preloads' = preloads + NumSlides
           /\ UNCHANGED <<currentSlideIndex, syncs, mapVars>>
     /\ op' \in {"preloadOk", "preloadFail"}
        => /\ preloads' = preloads - 1
           /\ UNCHANGED <<currentSlideIndex, syncs, mapVars>>]_vars

\* a deck of two slides was preloaded while a sync's overlay is shown; one
\* of the two fetches has failed, the other is still in flight
C15_Witness ==
  /\ op = "preloadFail"
  /\ NumSlides = 2
  /\ preloads = 1
  /\ dataLayer # {}
  /\ listeners # <<>>

\* C16: a feature without name gets no hover tooltip, a feature without
\* label gets no permanent tooltip, and a handler that has run has run to
\* its end and is unregistered.
C16_MissingPropertiesTolerated ==
  /\ \A l \in dataLayer :
       \A k \in HoverTips(Collections[LayerColl(l)]) :
         Collections[LayerColl(l)].features[k].props \in {"name", "both"}
  /\ \A t \in permTips :
       Collections[syncs[t[1]].coll].features[t[2]].props \in {"label", "both"}
  /\ \A s \in DOMAIN syncs : syncs[s].runs >= 1 => ~Registered(s)

\* the icons of the markers shown in the overlay
OverlayIcons ==
  UNION {{pointToLayer(Collections[LayerColl(l)].features[k]) :
            k \in DOMAIN Collections[LayerColl(l)].features} : l \in dataLayer}

\* the point features updateDataLayer can be given, and the values their
\* properties take
PointFeatures ==
  UNION {{Collections[c].features[k] : k \in DOMAIN Collections[c].features} : c \in CollIds}

PropertyValues == {f.props : f \in PointFeatures}

\* C17: the markers updateDataLayer builds get their icon by a
\* property-driven rule: there is one designated property value whose
\* features get a distinct icon while all other point features get the
\* default icon, so a feature with that value and a feature without it
\* never get the same icon.
C17_IconChosenByProperty ==
  OverlayIcons # {}
  => \E d \in PropertyValues :
       \A f, g \in PointFeatures :
         (f.props = d /\ g.props # d) => pointToLayer(f) # pointToLayer(g)

\* C18: currentSlideIndex is always a valid index, 0 <= currentSlideIndex < N,
\* so every sync is started for a slide that exists.
C18_IndexAlwaysValid ==
  /\ IsSlide(currentSlideIndex)
  /\ \A s \in DOMAIN syncs : IsSlide(syncs[s].slide)

\* no fetch is pending and no animation is in flight
Quiescent ==
  /\ \A s \in DOMAIN syncs : syncs[s].st # "fetching"
  /\ flying = 0

\* sync s fetched, rebuilt the overlay, started its animation, and its
\* completion handler ran without throwing
Successful(s) ==
  /\ syncs[s].st = "done"
  /\ syncs[s].runs >= 1
  /\ ThrowAt(s) = 0

\* C19 (as stated): without overlap, whenever the deck is quiescent after at
\* least one sync and every sync finished successfully, the overlay holds
\* exactly the features of the slide at currentSlideIndex, the last viewport
\* target is that slide's target and no completion handler is registered.
C19_SerialDeckCorrect ==
  (Len(syncs) >= 1 /\ Quiescent /\ \A s \in DOMAIN syncs : Successful(s))
  => LET last == Len(syncs)
     IN /\ syncs[last].slide = currentSlideIndex
        /\ dataLayer = {last}
        /\ OverlayFeatures = LayerFeatures(last, Collections[syncs[last].coll])
        /\ viewport = FlyTarget(Collections[syncs[last].coll])
        /\ listeners = <<>>

\* C19 (amended): without overlap, whenever the deck is quiescent after at
\* least one sync, every sync finished successfully, and the last call that
\* touched the overlay was a sync started for the slide at currentSlideIndex
\* (as goNextSlide, goPrevSlide, calcCurrentSlideIndex and
\* syncMapToCurrentSlide start it; not a syncMapToSlide call for another
\* slide, not an updateDataLayer call made on its own after it), the
\* overlay holds exactly the features fetched for that slide, the last
\* viewport target is that slide's target and no completion handler is
\* registered.
C19_SerialDeckCorrectForCurrentSlide ==
  (/\ Len(syncs) >= 1 /\ Quiescent
   /\ \A s \in DOMAIN syncs : Successful(s)
   /\ lastFetched > 0
   /\ syncs[Len(syncs)].slide = currentSlideIndex)
  => LET last == Len(syncs)
     IN /\ dataLayer = {last}
        /\ OverlayFeatures = LayerFeatures(last, Collections[syncs[last].coll])
        /\ viewport = FlyTarget(Collections[syncs[last].coll])
        /\ listeners = <<>>

\* two syncs for different slides ran one after the other, each to its end
C19_Witness ==
  /\ Len(syncs) = 2
  /\ Quiescent
  /\ \A s \in DOMAIN syncs : Successful(s) /\ syncs[s].animEnded
  /\ syncs[1].slide # syncs[2].slide
  /\ syncs[1].coll # syncs[2].coll
  /\ syncs[2].slide = currentSlideIndex
  /\ dataLayer = {2}

\* C20: a completion handler that has fired has bound permanent tooltips
\* exactly to the features of the layer its own sync built if that sync's
\* slide asks for persistent popups, and none otherwise, whichever slide is
\* current and whichever overlay is shown.
C20_HandlerActsOnItsOwnLayer ==
  \A s \in DOMAIN syncs :
    syncs[s].runs >= 1
    => TipsOf(s) = IF SlideAt(syncs[s].slide).showpopups
                   THEN LayerFeatures(s, Collections[syncs[s].coll])
                   ELSE {}

====
